---------------------------- MODULE Spec2Model ----------------------------
(***************************************************************************)
(* A model of goa's HTTP design root (http/design/root.go) and of the      *)
(* static file server expression (http/design/file_server.go).             *)
(*                                                                         *)
(* Go strings whose characters matter (request paths, "attribute:element"  *)
(* tokens) are sequences of one-character strings; names that are only     *)
(* compared for equality (service names) are TLA+ strings.  A pointer is a *)
(* value that names the allocation.  Go indices are 0-based: the operators *)
(* keep the 0-based indices of the code and read data[i + 1].              *)
(***************************************************************************)
EXTENDS Integers, Sequences, FiniteSets, TLC

VARIABLES
    HTTPServices,   \* RootExpr.HTTPServices: the list of service nodes
    lastOp,         \* the operation that ran last ("" before the first)
    arg,            \* its argument
    ret,            \* what it returned
    walked,         \* the batches the last WalkSets call handed to walk, in order
    headers,        \* RootExpr.headers: NIL or the address of a container
    params,         \* RootExpr.params: NIL or the address of a container
    heap,           \* the allocated attribute containers, by address
    refs,           \* the addresses Headers() / Params() have returned so far
    added,          \* the attribute names added through those addresses
    Design,         \* RootExpr.Design: nil or the list of the API servers' URLs
    encoded,        \* the token handed to NameMap
    RootPath,       \* Root.Path
    fs              \* a FileServerExpr

vars == <<HTTPServices, lastOp, arg, ret, walked, headers, params, heap, refs,
          added, Design, encoded, RootPath, fs>>

rootVars == <<HTTPServices, walked>>
containerVars == <<headers, params, heap, refs, added>>
otherVars == <<Design, encoded, RootPath, fs>>

NIL == 0

\* a nil *url.URL, a nil error, a nil *design.RootExpr
NilURL == [nil |-> TRUE]
NilError == ""
NilDesign == [nil |-> TRUE, Servers |-> <<>>]

\* a nil *ServiceExpr
NilService == <<"", 0>>

-----------------------------------------------------------------------------
(* Bounds *)

\* services the front-end declares under Spec
MaxServices == 3
\* services the front-end declares under SpecWalk
MaxWalkServices == 2
\* endpoints attached in all under SpecWalk
MaxEndpoints == 2
\* file servers attached in all under SpecWalk
MaxFileServers == 1
\* attribute names the front-end adds to the API headers and parameters
MaxAttributes == 2
\* API servers of the design
MaxServers == 3
\* characters of a token handed to NameMap
MaxTokenLen == 5
\* characters of a path prefix and of a declared request path
MaxPathLen == 2

\* the name of the i-th service of the design
ServiceName(i) == "s" \o ToString(i)

ServiceNames(n) == {ServiceName(i) : i \in 1..n}

\* the transport agnostic design.ServiceExpr values handed to ServiceFor
DesignServices(n) == {[Name |-> nm] : nm \in ServiceNames(n)}

-----------------------------------------------------------------------------
(* Sequences *)

Range(s) == {s[i] : i \in DOMAIN s}

\* the sequences over S of at most n elements
SeqsUpTo(S, n) == UNION {[1..k -> S] : k \in 0..n}

RECURSIVE Flatten(_)
Flatten(ss) == IF ss = <<>> THEN <<>> ELSE Head(ss) \o Flatten(Tail(ss))

-----------------------------------------------------------------------------
(* sort.SliceStable, as WalkSets calls it *)

\* the ServiceExpr.Name method: the name of the wrapped design service
Name(svc) == svc.ServiceExpr.Name

\* the less function WalkSets hands to sort.SliceStable
less(data, i, j) == data[j + 1].ParentName = Name(data[i + 1])

Swap(data, i, j) == [data EXCEPT ![i + 1] = data[j + 1], ![j + 1] = data[i + 1]]

\* the block size of sort.SliceStable's insertion sort runs
blockSize == 20

RECURSIVE InsertInner(_, _, _)
InsertInner(data, a, j) ==
    IF j > a /\ less(data, j, j - 1)
    THEN InsertInner(Swap(data, j, j - 1), a, j - 1)
    ELSE data

RECURSIVE InsertOuter(_, _, _, _)
InsertOuter(data, a, b, i) ==
    IF i < b THEN InsertOuter(InsertInner(data, a, i), a, b, i + 1) ELSE data

\* insertionSort_func(data, a, b): sorts data[a:b]
insertionSort(data, a, b) == InsertOuter(data, a, b, a + 1)

\* rotate(data, a, m, b): exchanges the blocks data[a:m] and data[m:b]
rotate(data, a, m, b) ==
    [k \in DOMAIN data |->
        LET i == k - 1 IN
        IF a <= i /\ i < a + (b - m) THEN data[k + (m - a)]
        ELSE IF a + (b - m) <= i /\ i < b THEN data[k - (b - m)]
        ELSE data[k]]

\* symMerge, m-a == 1: the lowest i in [m, b) with data[i] >= data[a]
RECURSIVE SearchLeft(_, _, _, _)
SearchLeft(data, a, i, j) ==
    IF i < j
    THEN LET h == (i + j) \div 2 IN
         IF less(data, h, a) THEN SearchLeft(data, a, h + 1, j)
                             ELSE SearchLeft(data, a, i, h)
    ELSE i

\* symMerge, b-m == 1: the lowest i in [a, m) with data[i] > data[m]
RECURSIVE SearchRight(_, _, _, _)
SearchRight(data, m, i, j) ==
    IF i < j
    THEN LET h == (i + j) \div 2 IN
         IF ~less(data, m, h) THEN SearchRight(data, m, h + 1, j)
                              ELSE SearchRight(data, m, i, h)
    ELSE i

\* symMerge, the general case: the binary search for start
RECURSIVE SearchStart(_, _, _, _)
SearchStart(data, p, start, r) ==
    IF start < r
    THEN LET c == (start + r) \div 2 IN
         IF ~less(data, p - c, c) THEN SearchStart(data, p, c + 1, r)
                                  ELSE SearchStart(data, p, start, c)
    ELSE start

\* symMerge_func(data, a, m, b): merges the sorted data[a:m] and data[m:b]
RECURSIVE symMerge(_, _, _, _)
symMerge(data, a, m, b) ==
    IF m - a = 1
    THEN LET i == SearchLeft(data, a, m, b) IN
         \* data[a] moves to the position before i
         IF a < i - 1 THEN rotate(data, a, a + 1, i) ELSE data
    ELSE IF b - m = 1
    THEN LET i == SearchRight(data, m, a, m) IN
         \* data[m] moves to position i
         IF m > i THEN rotate(data, i, m, m + 1) ELSE data
    ELSE LET mid == (a + b) \div 2
             n == mid + m
             start == IF m > mid THEN SearchStart(data, n - 1, n - b, mid)
                                 ELSE SearchStart(data, n - 1, a, m)
             end == n - start
             d1 == IF start < m /\ m < end THEN rotate(data, start, m, end) ELSE data
             d2 == IF a < start /\ start < mid THEN symMerge(d1, a, start, mid) ELSE d1
         IN  IF mid < end /\ end < b THEN symMerge(d2, mid, end, b) ELSE d2

\* stable_func, first loop: insertion sort of each block of bs elements
RECURSIVE SortBlocks(_, _, _, _)
SortBlocks(data, bs, a, b) ==
    IF b <= Len(data)
    THEN SortBlocks(insertionSort(data, a, b), bs, b, b + bs)
    ELSE insertionSort(data, a, Len(data))

\* stable_func, inner loop of the second: merges the pairs of blocks of bs elements
RECURSIVE MergePairs(_, _, _, _)
MergePairs(data, bs, a, b) ==
    IF b <= Len(data)
    THEN MergePairs(symMerge(data, a, a + bs, b), bs, b, b + 2 * bs)
    ELSE IF a + bs < Len(data) THEN symMerge(data, a, a + bs, Len(data)) ELSE data

\* stable_func, second loop: doubles the block size until one block is left
RECURSIVE MergeBlocks(_, _)
MergeBlocks(data, bs) ==
    IF bs < Len(data)
    THEN MergeBlocks(MergePairs(data, bs, 0, 2 * bs), 2 * bs)
    ELSE data

\* sort.SliceStable(r.HTTPServices, less)
SliceStable(data) == MergeBlocks(SortBlocks(data, blockSize, 0, blockSize), blockSize)


-----------------------------------------------------------------------------
(* RootExpr: the service registry *)

\* the node ServiceFor allocates: a ServiceExpr wrapping s and nothing else
NewService(id, s) ==
    [id |-> id, ServiceExpr |-> s, ParentName |-> "",
     HTTPEndpoints |-> <<>>, FileServers |-> <<>>]

\* RootExpr.Service: the first node named name, NIL if there is none
RECURSIVE ServiceLookup(_, _)
ServiceLookup(services, name) ==
    IF services = <<>> THEN NilService
    ELSE IF Name(Head(services)) = name THEN Head(services).id
    ELSE ServiceLookup(Tail(services), name)

\* the address of a newly allocated node: the service it wraps and how many
\* nodes wrapping that service were allocated before (a node is never freed)
NewAddress(services, s) ==
    <<s.Name, Cardinality({i \in DOMAIN services : services[i].ServiceExpr = s}) + 1>>

\* a variant without the lookup: every call registers a new node
ServiceForAlwaysNew(services, s) ==
    [list |-> Append(services, NewService(NewAddress(services, s), s)),
     ret |-> NewAddress(services, s)]

\* RootExpr.ServiceFor: the list after the call and the node returned
ServiceForResult(services, s) ==
    LET res == ServiceLookup(services, s.Name) IN
    IF res # NilService
    THEN [list |-> services, ret |-> res]
    ELSE [list |-> Append(services, NewService(NewAddress(services, s), s)),
          ret |-> NewAddress(services, s)]

ServiceFor(s) ==
    /\ HTTPServices' = ServiceForResult(HTTPServices, s).list
    /\ ret' = ServiceForResult(HTTPServices, s).ret
    /\ lastOp' = "ServiceFor"
    /\ arg' = s.Name
    /\ walked' = <<>>
    /\ UNCHANGED <<containerVars, otherVars>>

Service(name) ==
    /\ ret' = ServiceLookup(HTTPServices, name)
    /\ lastOp' = "Service"
    /\ arg' = name
    /\ walked' = <<>>
    /\ UNCHANGED <<HTTPServices, containerVars, otherVars>>

\* the expressions of the three sets, as the walk function receives them
ServiceRef(svc) == [kind |-> "service", id |-> svc.id]
EndpointRef(owner, k) == [kind |-> "endpoint", id |-> <<owner, k>>]
FileServerRef(owner, k) == [kind |-> "fileserver", id |-> <<owner, k>>]

\* a variant that hands over the endpoints before the services
WalkOrderSwapped(services) ==
    << Flatten([i \in DOMAIN services |-> services[i].HTTPEndpoints]),
       [i \in DOMAIN services |-> ServiceRef(services[i])],
       Flatten([i \in DOMAIN services |-> services[i].FileServers]) >>

\* the loop of WalkSets over the sorted list and its three walk calls:
\* services, endpoints, servers
WalkBatches(services) ==
    << [i \in DOMAIN services |-> ServiceRef(services[i])],
       Flatten([i \in DOMAIN services |-> services[i].HTTPEndpoints]),
       Flatten([i \in DOMAIN services |-> services[i].FileServers]) >>

\* a variant that builds the sets from the list as it was before the sort
WalkSetsUnsortedBatches(services) ==
    [list |-> SliceStable(services), walked |-> WalkBatches(services)]

\* RootExpr.WalkSets: the list it leaves and the sets it hands to walk
WalkSetsResult(services) ==
    LET sorted == SliceStable(services) IN
    [list |-> sorted, walked |-> WalkBatches(sorted)]

WalkSets ==
    /\ HTTPServices' = WalkSetsResult(HTTPServices).list
    /\ walked' = WalkSetsResult(HTTPServices).walked
    /\ lastOp' = "WalkSets"
    /\ arg' = NIL
    /\ ret' = NIL
    /\ UNCHANGED <<containerVars, otherVars>>

-----------------------------------------------------------------------------
(* The front-end: the DSL fills the nodes ServiceFor returned *)

Count(services, field) == Len(Flatten([i \in DOMAIN services |-> services[i][field]]))

\* Parent(name) in a service's HTTP expression
SetParent(i, parent) ==
    /\ i \in DOMAIN HTTPServices
    /\ HTTPServices[i].ParentName # parent
    /\ HTTPServices' = [HTTPServices EXCEPT ![i].ParentName = parent]
    /\ lastOp' = "dsl"
    /\ arg' = NIL
    /\ ret' = NIL
    /\ walked' = <<>>
    /\ UNCHANGED <<containerVars, otherVars>>

\* an HTTP endpoint declared in a service
AddEndpoint(i) ==
    /\ i \in DOMAIN HTTPServices
    /\ Count(HTTPServices, "HTTPEndpoints") < MaxEndpoints
    /\ HTTPServices' = [HTTPServices EXCEPT ![i].HTTPEndpoints =
           Append(@, EndpointRef(HTTPServices[i].id, Len(@) + 1))]
    /\ lastOp' = "dsl"
    /\ arg' = NIL
    /\ ret' = NIL
    /\ walked' = <<>>
    /\ UNCHANGED <<containerVars, otherVars>>

\* Files(path, filename) declared in a service
AddFileServer(i) ==
    /\ i \in DOMAIN HTTPServices
    /\ Count(HTTPServices, "FileServers") < MaxFileServers
    /\ HTTPServices' = [HTTPServices EXCEPT ![i].FileServers =
           Append(@, FileServerRef(HTTPServices[i].id, Len(@) + 1))]
    /\ lastOp' = "dsl"
    /\ arg' = NIL
    /\ ret' = NIL
    /\ walked' = <<>>
    /\ UNCHANGED <<containerVars, otherVars>>

-----------------------------------------------------------------------------
(* Specifications of the registry *)

\* the values of the variables an operation group does not use
IdleContainers ==
    /\ headers = NIL /\ params = NIL /\ heap = <<>> /\ refs = {} /\ added = {}

IdleOthers ==
    /\ Design = NilDesign /\ encoded = <<>> /\ RootPath = <<>> /\ fs = NIL

IdleRoot ==
    /\ HTTPServices = <<>> /\ walked = <<>>

Init ==
    /\ IdleRoot /\ IdleContainers /\ IdleOthers
    /\ lastOp = "" /\ arg = NIL /\ ret = NIL

Next ==
    \/ \E s \in DesignServices(MaxServices) : ServiceFor(s)
    \/ \E name \in ServiceNames(MaxServices) : Service(name)
    \/ \E i \in 1..MaxServices, p \in ServiceNames(MaxServices) : SetParent(i, p)
    \/ WalkSets

Spec == Init /\ [][Next]_vars

NextWalk ==
    \/ \E s \in DesignServices(MaxWalkServices) : ServiceFor(s)
    \/ \E i \in 1..MaxWalkServices, p \in ServiceNames(MaxWalkServices) : SetParent(i, p)
    \/ \E i \in 1..MaxWalkServices : AddEndpoint(i)
    \/ \E i \in 1..MaxWalkServices : AddFileServer(i)
    \/ WalkSets

SpecWalk == Init /\ [][NextWalk]_vars

\* a registry of more services than one insertion sort block holds, declared in
\* the order s1, s2, ...; the service at index c names the one at index p as parent
LargeRegistry(c, p) ==
    [i \in 1..(blockSize + 1) |->
        [NewService(<<ServiceName(i), 1>>, [Name |-> ServiceName(i)])
            EXCEPT !.ParentName = IF i = c THEN ServiceName(p) ELSE ""]]

InitLarge ==
    /\ \E c \in 1..(blockSize + 1), p \in 1..(blockSize + 1) :
          c # p /\ HTTPServices = LargeRegistry(c, p)
    /\ walked = <<>>
    /\ IdleContainers /\ IdleOthers
    /\ lastOp = "" /\ arg = NIL /\ ret = NIL

NextLarge == WalkSets

SpecLarge == InitLarge /\ [][NextLarge]_vars

-----------------------------------------------------------------------------
(* Claims about the registry *)

IndexOf(services, id) == CHOOSE i \in DOMAIN services : services[i].id = id

\* the names are unique
UniqueNames(services) ==
    \A i, j \in DOMAIN services : Name(services[i]) = Name(services[j]) => i = j

IsChildOf(services, j, i) == i # j /\ services[j].ParentName = Name(services[i])

\* every declared parent is another registered service, and no child is a parent
SingleLevel(services) ==
    /\ UniqueNames(services)
    /\ \A j \in DOMAIN services :
          services[j].ParentName # "" =>
              /\ \E i \in DOMAIN services : IsChildOf(services, j, i)
              /\ \A k \in DOMAIN services : ~IsChildOf(services, k, j)

ParentsFirst(services) ==
    \A i, j \in DOMAIN services : IsChildOf(services, j, i) => i < j

\* C1: after WalkSets on a registry of uniquely named services with one level of
\* nesting, every parent is at a smaller index than each of its children, in the
\* stored list and in the services batch handed to walk.
C1_ParentBeforeChild ==
    (lastOp = "WalkSets" /\ SingleLevel(HTTPServices)) =>
        /\ ParentsFirst(HTTPServices)
        /\ \A i, j \in DOMAIN HTTPServices :
              IsChildOf(HTTPServices, j, i) =>
                  \E a, b \in DOMAIN walked[1] :
                      /\ a < b
                      /\ walked[1][a] = ServiceRef(HTTPServices[i])
                      /\ walked[1][b] = ServiceRef(HTTPServices[j])

Kinds(batch) == {batch[i].kind : i \in DOMAIN batch}

\* C2: every WalkSets call invokes walk exactly three times, with the services,
\* then the endpoints, then the file servers (an empty set is handed over too), and
\* has no failure outcome; the first call delivers every registered service.
C2_ThreeWalksInOrder ==
    /\ lastOp = "WalkSets" =>
          /\ Len(walked) = 3
          /\ Kinds(walked[1]) \subseteq {"service"}
          /\ Kinds(walked[2]) \subseteq {"endpoint"}
          /\ Kinds(walked[3]) \subseteq {"fileserver"}
          /\ \A i \in DOMAIN HTTPServices :
                ServiceRef(HTTPServices[i]) \in Range(walked[1])
          /\ ret = NIL
    /\ lastOp # "WalkSets" => walked = <<>>

C2_Witness ==
    /\ lastOp = "WalkSets"
    /\ Len(walked[1]) = 2
    /\ walked[2] # <<>>
    /\ walked[3] # <<>>

UniqueNodes ==
    /\ UniqueNames(HTTPServices)
    /\ \A i, j \in DOMAIN HTTPServices :
          HTTPServices[i].id = HTTPServices[j].id => i = j

\* a ServiceFor step returns the registered node and leaves the list alone, or
\* appends one empty node wrapping the service and returns it
ServiceForStep ==
    lastOp' = "ServiceFor" =>
        LET existing == {i \in DOMAIN HTTPServices : Name(HTTPServices[i]) = arg'} IN
        IF existing # {}
        THEN /\ HTTPServices' = HTTPServices
             /\ \E i \in existing : ret' = HTTPServices[i].id
        ELSE /\ Len(HTTPServices') = Len(HTTPServices) + 1
             /\ SubSeq(HTTPServices', 1, Len(HTTPServices)) = HTTPServices
             /\ LET new == HTTPServices'[Len(HTTPServices')] IN
                   /\ new.ServiceExpr.Name = arg'
                   /\ new.ParentName = ""
                   /\ new.HTTPEndpoints = <<>>
                   /\ new.FileServers = <<>>
                   /\ \A i \in DOMAIN HTTPServices : HTTPServices[i].id # new.id
                   /\ ret' = new.id

\* a registered node stays registered, under its name
NodesKept ==
    \A i \in DOMAIN HTTPServices : \E j \in DOMAIN HTTPServices' :
        /\ HTTPServices'[j].id = HTTPServices[i].id
        /\ Name(HTTPServices'[j]) = Name(HTTPServices[i])

\* C3: the list never holds two nodes of one name; ServiceFor(s) returns the node
\* registered under s.Name and leaves the list unchanged, or appends exactly one
\* new empty node wrapping s and returns it; a node stays registered under its
\* name, so two calls with the same identity return the same node.
C3_GetOrCreate == []UniqueNodes /\ [][ServiceForStep /\ NodesKept]_vars

C3_Witness ==
    /\ lastOp = "ServiceFor"
    /\ Len(HTTPServices) = 3
    /\ ret = HTTPServices[1].id

Positions(batch, e) == {p \in DOMAIN batch : batch[p] = e}

\* batch lists the field's expressions of the services once each, service by
\* service in the order of the list, and in the order of declaration in a service
IsEnumeration(batch, services, field) ==
    /\ Len(batch) = Count(services, field)
    /\ \A i \in DOMAIN services : \A k \in DOMAIN services[i][field] :
          Cardinality(Positions(batch, services[i][field][k])) = 1
    /\ \A i, j \in DOMAIN services :
       \A k \in DOMAIN services[i][field], l \in DOMAIN services[j][field] :
          (i < j \/ (i = j /\ k < l)) =>
              \A p \in Positions(batch, services[i][field][k]),
                 q \in Positions(batch, services[j][field][l]) : p < q

\* C9: the sets are built from the list as the sort left it: the services set is
\* the stored list, the endpoints set lists the endpoints service by service in
\* that order and in declaration order in a service, the file servers set
\* likewise; each attached expression is in its set once and in no other set.
C9_BatchesAfterSort ==
    lastOp = "WalkSets" =>
        /\ Len(walked[1]) = Len(HTTPServices)
        /\ \A i \in DOMAIN HTTPServices : walked[1][i] = ServiceRef(HTTPServices[i])
        /\ IsEnumeration(walked[2], HTTPServices, "HTTPEndpoints")
        /\ IsEnumeration(walked[3], HTTPServices, "FileServers")
        /\ Kinds(walked[1]) \cap {"endpoint", "fileserver"} = {}
        /\ Kinds(walked[2]) \cap {"service", "fileserver"} = {}
        /\ Kinds(walked[3]) \cap {"service", "endpoint"} = {}

\* a parent and its child, both with endpoints
C9_Witness ==
    /\ lastOp = "WalkSets"
    /\ Len(HTTPServices) = 2
    /\ IsChildOf(HTTPServices, 2, 1)
    /\ HTTPServices[1].HTTPEndpoints # <<>>
    /\ HTTPServices[2].HTTPEndpoints # <<>>
    /\ walked[3] # <<>>

Before(services, x, y) == IndexOf(services, x) < IndexOf(services, y)

Ids(services) == {services[i].id : i \in DOMAIN services}

Node(services, id) == services[IndexOf(services, id)]

DirectlyRelated(services, x, y) ==
    \/ Node(services, x).ParentName = Name(Node(services, y))
    \/ Node(services, y).ParentName = Name(Node(services, x))

\* C10: WalkSets only reorders the stored list: the list after the call holds the
\* same nodes, each once and unchanged, and two services keep their relative
\* order unless one is the direct parent of the other.
C10_OnlyReorders ==
    [][lastOp' = "WalkSets" =>
        /\ Len(HTTPServices') = Len(HTTPServices)
        /\ \A i \in DOMAIN HTTPServices : \E j \in DOMAIN HTTPServices' :
              HTTPServices'[j] = HTTPServices[i]
        /\ \A x, y \in Ids(HTTPServices) :
              (Before(HTTPServices, x, y) /\ ~DirectlyRelated(HTTPServices, x, y))
                  => Before(HTTPServices', x, y)]_vars

-----------------------------------------------------------------------------
(* RootExpr: the API headers and parameters *)

AttributeNames == {"a" \o ToString(i) : i \in 1..MaxAttributes}

\* &design.AttributeExpr{Type: &design.Object{}}
EmptyObject == [Type |-> "Object", attributes |-> {}]

\* a variant without the nil check: every call allocates a container
HeadersAlwaysAllocates(field, hp) ==
    [field |-> Len(hp) + 1, heap |-> Append(hp, EmptyObject)]

\* RootExpr.Headers: the headers field and the heap after the call
HeadersResult(field, hp) ==
    IF field = NIL
    THEN [field |-> Len(hp) + 1, heap |-> Append(hp, EmptyObject)]
    ELSE [field |-> field, heap |-> hp]

\* RootExpr.Params: the params field and the heap after the call
ParamsResult(field, hp) ==
    IF field = NIL
    THEN [field |-> Len(hp) + 1, heap |-> Append(hp, EmptyObject)]
    ELSE [field |-> field, heap |-> hp]

Headers ==
    /\ headers' = HeadersResult(headers, heap).field
    /\ heap' = HeadersResult(headers, heap).heap
    /\ ret' = headers'
    /\ refs' = refs \cup {<<"headers", ret'>>}
    /\ lastOp' = "Headers"
    /\ arg' = NIL
    /\ UNCHANGED <<params, added, rootVars, otherVars>>

Params ==
    /\ params' = ParamsResult(params, heap).field
    /\ heap' = ParamsResult(params, heap).heap
    /\ ret' = params'
    /\ refs' = refs \cup {<<"params", ret'>>}
    /\ lastOp' = "Params"
    /\ arg' = NIL
    /\ UNCHANGED <<headers, added, rootVars, otherVars>>

\* design.NewMappedAttributeExpr(att): the view, by the container it is given
NewMappedAttributeExpr(att) == [wraps |-> att]

MappedHeaders ==
    /\ ret' = NewMappedAttributeExpr(headers)
    /\ lastOp' = "MappedHeaders"
    /\ arg' = NIL
    /\ UNCHANGED <<containerVars, rootVars, otherVars>>

MappedParams ==
    /\ ret' = NewMappedAttributeExpr(params)
    /\ lastOp' = "MappedParams"
    /\ arg' = NIL
    /\ UNCHANGED <<containerVars, rootVars, otherVars>>

\* the front-end adds an attribute through a container Headers() or Params()
\* returned
AddAttribute(ref, name) ==
    /\ ref \in refs
    /\ name \notin heap[ref[2]].attributes
    /\ heap' = [heap EXCEPT ![ref[2]].attributes = @ \cup {name}]
    /\ added' = added \cup {<<ref[1], name>>}
    /\ lastOp' = "dsl"
    /\ arg' = NIL
    /\ ret' = NIL
    /\ UNCHANGED <<headers, params, refs, rootVars, otherVars>>

NextContainers ==
    \/ Headers
    \/ Params
    \/ MappedHeaders
    \/ MappedParams
    \/ \E ref \in refs, name \in AttributeNames : AddAttribute(ref, name)

SpecContainers == Init /\ [][NextContainers]_vars

-----------------------------------------------------------------------------
(* Claims about the API headers and parameters *)

Field(which) == IF which = "headers" THEN headers ELSE params

\* what holds of the containers in every state
ContainersInv ==
    /\ lastOp = "Headers" => (ret # NIL /\ ret = headers)
    /\ lastOp = "Params" => (ret # NIL /\ ret = params)
    /\ \A ref \in refs :
          /\ ref[2] = Field(ref[1])
          /\ ref[2] \in DOMAIN heap
          /\ heap[ref[2]].Type = "Object"
    /\ \A a \in added : a[2] \in heap[Field(a[1])].attributes
    /\ (headers # NIL /\ params # NIL) => headers # params

\* an accessor call allocates an empty container if the field is unset, changes
\* nothing if it is set, and leaves the other field alone
AccessorStep(op, field, fieldNext, other, otherNext) ==
    lastOp' = op =>
        /\ otherNext = other
        /\ field # NIL => (fieldNext = field /\ heap' = heap)
        /\ field = NIL =>
              /\ fieldNext \in DOMAIN heap' \ DOMAIN heap
              /\ heap'[fieldNext] = EmptyObject
              /\ \A a \in DOMAIN heap : heap'[a] = heap[a]

\* C4: Headers() and Params() never return an unset container; the first call
\* allocates an empty object-typed container, every later call returns that same
\* container without reallocating, so what was added through an earlier reference
\* is in the container a later call returns; the two containers are distinct and
\* a call of one accessor leaves the other's field alone.
C4_LazyContainers ==
    /\ []ContainersInv
    /\ [][/\ AccessorStep("Headers", headers, headers', params, params')
          /\ AccessorStep("Params", params, params', headers, headers')]_vars

\* a second Headers() call, after an attribute was added through the first
C4_Witness ==
    /\ lastOp = "Headers"
    /\ params # NIL
    /\ heap[headers].attributes # {}
    /\ heap[params].attributes # {}

\* C5: MappedHeaders() and MappedParams() wrap a set container in every state,
\* also when Headers() and Params() have never been called.
C5_MappedNeverUnset ==
    lastOp \in {"MappedHeaders", "MappedParams"} => ret.wraps # NIL

-----------------------------------------------------------------------------
(* RootExpr.Schemes *)

\* the URLs of the declared servers
ServerURLs == {"http://a.io", "https://a.io", "a.io", "http://[::1", ":80"}

\* url.Parse: the URL and a nil error, or a nil URL and the error
Parse(rawurl) ==
    CASE rawurl = "http://a.io" -> [u |-> [nil |-> FALSE, Scheme |-> "http"], err |-> NilError]
      [] rawurl = "https://a.io" -> [u |-> [nil |-> FALSE, Scheme |-> "https"], err |-> NilError]
      [] rawurl = "a.io" -> [u |-> [nil |-> FALSE, Scheme |-> ""], err |-> NilError]
      [] rawurl = "http://[::1" -> [u |-> NilURL, err |-> "missing ']' in host"]
      [] rawurl = ":80" -> [u |-> NilURL, err |-> "missing protocol scheme"]

\* sort.Strings on a set of schemes
SortStrings(set) == SelectSeq(<<"", "http", "https">>, LAMBDA s : s \in set)

\* the loop of Schemes over the servers: a server whose URL fails to parse has
\* the Scheme of the URL read, and url.Parse returned a nil URL with the error
RECURSIVE CollectSchemes(_, _)
CollectSchemes(servers, schemes) ==
    IF servers = <<>> THEN [panic |-> FALSE, schemes |-> schemes]
    ELSE LET r == Parse(Head(servers)) IN
         IF r.err # NilError
         THEN IF r.u.nil
              THEN [panic |-> TRUE, schemes |-> schemes]
              ELSE CollectSchemes(Tail(servers), schemes \cup {r.u.Scheme})
         ELSE CollectSchemes(Tail(servers), schemes)

\* RootExpr.Schemes: a nil pointer panic, or the list returned (nil is <<>>)
SchemesResult(design) ==
    IF design.nil THEN [panic |-> FALSE, value |-> <<>>]
    ELSE LET c == CollectSchemes(design.Servers, {}) IN
         IF c.panic THEN [panic |-> TRUE, value |-> <<>>]
         ELSE IF c.schemes = {} THEN [panic |-> FALSE, value |-> <<>>]
         ELSE [panic |-> FALSE, value |-> SortStrings(c.schemes)]

Schemes ==
    /\ ret' = SchemesResult(Design)
    /\ lastOp' = "Schemes"
    /\ arg' = NIL
    /\ UNCHANGED <<rootVars, containerVars, otherVars>>

InitSchemes ==
    /\ Design \in {NilDesign} \cup
          {[nil |-> FALSE, Servers |-> s] : s \in SeqsUpTo(ServerURLs, MaxServers)}
    /\ encoded = <<>> /\ RootPath = <<>> /\ fs = NIL
    /\ IdleRoot /\ IdleContainers
    /\ lastOp = "" /\ arg = NIL /\ ret = NIL

NextSchemes == Schemes

SpecSchemes == InitSchemes /\ [][NextSchemes]_vars

\* the scheme a server URL is written with
WrittenScheme(rawurl) ==
    CASE rawurl \in {"http://a.io", "http://[::1"} -> "http"
      [] rawurl = "https://a.io" -> "https"
      [] OTHER -> ""

\* C6: Schemes() completes without failing and returns the sorted, duplicate-free
\* list of the non-empty schemes of the servers whose URL fails to parse (empty
\* when there is no server or no such scheme).
C6_SchemesOfFailingServers ==
    lastOp = "Schemes" =>
        /\ ~ret.panic
        /\ ret.value =
              SortStrings({WrittenScheme(s) :
                  s \in {x \in Range(Design.Servers) : Parse(x).err # NilError}} \ {""})

-----------------------------------------------------------------------------
(* NameMap *)

TokenAlphabet == {"a", "b", "c", ":"}

\* strings.Split(s, sep), sep one character
RECURSIVE Split(_, _)
Split(s, sep) ==
    IF \A i \in DOMAIN s : s[i] # sep THEN <<s>>
    ELSE LET i == CHOOSE k \in DOMAIN s : s[k] = sep /\ \A l \in 1..(k - 1) : s[l] # sep
         IN  <<SubSeq(s, 1, i - 1)>> \o Split(SubSeq(s, i + 1, Len(s)), sep)

\* a variant that splits once: the element name is all that follows the first ":"
NameMapSplitOnce(tok) ==
    LET elems == Split(tok, ":")
        attName == elems[1]
    IN  <<attName, IF Len(elems) > 1
                   THEN SubSeq(tok, Len(attName) + 2, Len(tok))
                   ELSE attName>>

\* NameMap: the attribute name and the HTTP element name
NameMap(tok) ==
    LET elems == Split(tok, ":")
        attName == elems[1]
    IN  <<attName, IF Len(elems) > 1 THEN elems[2] ELSE attName>>

NameMapCall ==
    /\ ret' = NameMap(encoded)
    /\ lastOp' = "NameMap"
    /\ arg' = encoded
    /\ UNCHANGED <<rootVars, containerVars, otherVars>>

InitNameMap ==
    /\ encoded \in SeqsUpTo(TokenAlphabet, MaxTokenLen)
    /\ Design = NilDesign /\ RootPath = <<>> /\ fs = NIL
    /\ IdleRoot /\ IdleContainers
    /\ lastOp = "" /\ arg = NIL /\ ret = NIL

NextNameMap == NameMapCall

SpecNameMap == InitNameMap /\ [][NextNameMap]_vars

Colons(tok) == {i \in DOMAIN tok : tok[i] = ":"}

Min(S) == CHOOSE x \in S : \A y \in S : x <= y

-----------------------------------------------------------------------------
(* FileServerExpr.Finalize *)

PathAlphabet == {"/", ".", "a"}

\* the prefixes and paths tried: every short string over the alphabet, and the
\* documented example
PathInputs ==
    SeqsUpTo(PathAlphabet, MaxPathLen)
        \cup {<<"/", "a", "p", "i">>, <<"v", "1">>, <<"a", "s", "s", "e", "t", "s">>}

\* Clean, the ".." case: drops the last element written, back to dotdot at most
RECURSIVE Backtrack(_, _)
Backtrack(out, dotdot) ==
    LET rest == SubSeq(out, 1, Len(out) - 1) IN
    IF Len(rest) > dotdot /\ out[Len(out)] # "/" THEN Backtrack(rest, dotdot) ELSE rest

\* Clean, the default case: the index after the path element that starts at r
RECURSIVE ElementEnd(_, _)
ElementEnd(path, r) ==
    IF r < Len(path) /\ path[r + 1] # "/" THEN ElementEnd(path, r + 1) ELSE r

\* Clean, the loop: r reads path, out is what has been written
RECURSIVE CleanLoop(_, _, _, _, _)
CleanLoop(path, rooted, r, out, dotdot) ==
    LET n == Len(path) IN
    IF r >= n THEN out
    ELSE IF path[r + 1] = "/" THEN CleanLoop(path, rooted, r + 1, out, dotdot)
    ELSE IF path[r + 1] = "." /\ (r + 1 = n \/ path[r + 2] = "/")
    THEN CleanLoop(path, rooted, r + 1, out, dotdot)
    ELSE IF path[r + 1] = "." /\ path[r + 2] = "." /\ (r + 2 = n \/ path[r + 3] = "/")
    THEN IF Len(out) > dotdot
         THEN CleanLoop(path, rooted, r + 2, Backtrack(out, dotdot), dotdot)
         ELSE IF ~rooted
         THEN LET o == (IF Len(out) > 0 THEN Append(out, "/") ELSE out) \o <<".", ".">>
              IN  CleanLoop(path, rooted, r + 2, o, Len(o))
         ELSE CleanLoop(path, rooted, r + 2, out, dotdot)
    ELSE LET o == IF (rooted /\ Len(out) # 1) \/ (~rooted /\ Len(out) # 0)
                  THEN Append(out, "/") ELSE out
             e == ElementEnd(path, r)
         IN  CleanLoop(path, rooted, e, o \o SubSeq(path, r + 1, e), dotdot)

\* path.Clean
Clean(path) ==
    IF path = <<>> THEN <<".">>
    ELSE LET rooted == path[1] = "/"
             out == IF rooted THEN CleanLoop(path, TRUE, 1, <<"/">>, 1)
                              ELSE CleanLoop(path, FALSE, 0, <<>>, 0)
         IN  IF out = <<>> THEN <<".">> ELSE out

\* strings.Join(elems, "/")
RECURSIVE StringsJoin(_)
StringsJoin(elems) ==
    IF elems = <<>> THEN <<>>
    ELSE IF Len(elems) = 1 THEN elems[1]
    ELSE elems[1] \o <<"/">> \o StringsJoin(Tail(elems))

\* path.Join: the elements from the first non-empty one on, joined and cleaned
RECURSIVE Join(_)
Join(elem) ==
    IF elem = <<>> THEN <<>>
    ELSE IF Head(elem) # <<>> THEN Clean(StringsJoin(elem))
    ELSE Join(Tail(elem))

HasPrefix(s, c) == Len(s) >= 1 /\ s[1] = c

\* a variant that prepends the "/" without looking at the joined path
FinalizeAlwaysPrefixed(root, f) ==
    [f EXCEPT !.RequestPath = <<"/">> \o Join(<<root, f.Service.Path, f.RequestPath>>)]

\* FileServerExpr.Finalize: the file server after the call
FinalizeResult(root, f) ==
    LET joined == Join(<<root, f.Service.Path, f.RequestPath>>) IN
    [f EXCEPT !.RequestPath =
        IF ~HasPrefix(joined, "/") THEN <<"/">> \o joined ELSE joined]

\* the evaluation finalizes an expression once
Finalize ==
    /\ lastOp # "Finalize"
    /\ fs' = FinalizeResult(RootPath, fs)
    /\ lastOp' = "Finalize"
    /\ arg' = NIL
    /\ ret' = NIL
    /\ UNCHANGED <<Design, encoded, RootPath, rootVars, containerVars>>

\* a file server of a service, as the DSL declares it
FileServer(servicePath, requestPath) ==
    [Service |-> [Path |-> servicePath], Description |-> "", Docs |-> NIL,
     FilePath |-> "public", RequestPath |-> requestPath, Metadata |-> NIL]

InitFinalize ==
    /\ RootPath \in PathInputs
    /\ fs \in {FileServer(sp, rp) : sp \in PathInputs, rp \in PathInputs}
    /\ Design = NilDesign /\ encoded = <<>>
    /\ IdleRoot /\ IdleContainers
    /\ lastOp = "" /\ arg = NIL /\ ret = NIL

NextFinalize == Finalize

SpecFinalize == InitFinalize /\ [][NextFinalize]_vars

-----------------------------------------------------------------------------
(* Claims about Finalize *)

\* the elements of a path: the maximal runs without "/"
RECURSIVE Elements(_)
Elements(path) ==
    IF path = <<>> THEN <<>>
    ELSE IF Head(path) = "/" THEN Elements(Tail(path))
    ELSE LET cut == IF \E i \in DOMAIN path : path[i] = "/"
                    THEN Min({i \in DOMAIN path : path[i] = "/"})
                    ELSE Len(path) + 1
         IN  <<SubSeq(path, 1, cut - 1)>> \o Elements(SubSeq(path, cut, Len(path)))

\* the elements left once "." is dropped and ".." has removed the element before
\* it; a ".." with nothing to remove is dropped at the root and kept otherwise
RECURSIVE Resolve(_, _, _)
Resolve(elems, rooted, stack) ==
    IF elems = <<>> THEN stack
    ELSE LET e == Head(elems)
             s == IF e = <<".">> THEN stack
                  ELSE IF e = <<".", ".">>
                  THEN IF stack # <<>> /\ stack[Len(stack)] # <<".", ".">>
                       THEN SubSeq(stack, 1, Len(stack) - 1)
                       ELSE IF rooted THEN stack ELSE Append(stack, e)
                  ELSE Append(stack, e)
         IN  Resolve(Tail(elems), rooted, s)

\* the joined path made absolute: "/" and the resolved elements, "/" between them
RECURSIVE Slashed(_)
Slashed(elems) ==
    IF elems = <<>> THEN <<>> ELSE <<"/">> \o Head(elems) \o Slashed(Tail(elems))

AbsoluteJoin(root, prefix, path) ==
    LET given == SelectSeq(<<root, prefix, path>>, LAMBDA s : s # <<>>)
        rooted == given # <<>> /\ given[1][1] = "/"
        stack == Resolve(Elements(root) \o Elements(prefix) \o Elements(path),
                         rooted, <<>>)
    IN  IF given = <<>> THEN <<"/">>
        ELSE IF stack = <<>> THEN (IF rooted THEN <<"/">> ELSE <<"/", ".">>)
        ELSE Slashed(stack)

\* C8: one Finalize call leaves RequestPath equal to the join of the root
\* prefix, the service prefix and the declared request path, made absolute: it
\* starts with exactly one "/" and holds no "//"; no other field changes.
C8_FinalizeNormalizes ==
    [][lastOp' = "Finalize" =>
        LET out == fs'.RequestPath IN
        /\ out = AbsoluteJoin(RootPath, fs.Service.Path, fs.RequestPath)
        /\ out[1] = "/"
        /\ \A i \in 1..(Len(out) - 1) : ~(out[i] = "/" /\ out[i + 1] = "/")
        /\ [fs' EXCEPT !.RequestPath = fs.RequestPath] = fs
        /\ RootPath' = RootPath]_vars

\* "/api", "v1", "assets" finalizes to "/api/v1/assets"
C8_Witness ==
    /\ lastOp = "Finalize"
    /\ RootPath = <<"/", "a", "p", "i">>
    /\ fs.Service.Path = <<"v", "1">>
    /\ fs.RequestPath = <<"/", "a", "p", "i", "/", "v", "1", "/",
                          "a", "s", "s", "e", "t", "s">>

=============================================================================
